---------------------------- MODULE Spec2Model ----------------------------
(***************************************************************************)
(* A model of cli-tilemap (src/src/lib.rs): TileMap<T>, its Formatting,    *)
(* its constructors, and the two render paths `draw` (to an io::Write      *)
(* sink, through crossterm's execute!) and `fmt` (Display: to_string, and  *)
(* write! onto any fmt::Write).                                            *)
(*                                                                         *)
(* Text is a sequence of characters, each a string of length one; the      *)
(* escape character (byte 0x1b) is written "ESC".  A piece is the text of  *)
(* one write_str call.                                                     *)
(***************************************************************************)
EXTENDS Naturals, Integers, Sequences, FiniteSets

VARIABLES
    phase,       \* "unbuilt", "live" (a TileMap exists) or "panicked"
    noColor,     \* the environment variable NO_COLOR is set (and not empty)
    formatting,  \* TileMap.formatting
    grid,        \* the Grid of TileMap.gridmap
    map,         \* the HashMap<Cell, T> of TileMap.gridmap
    sink,        \* the io::Write handed to draw, if draw was the last call
    drawRes,     \* what that draw returned: "none", "Ok" or "Err"
    frames,      \* how many draws in a row that sink has taken
    str,         \* what to_string returned, if to_string was the last call
    strRes,      \* "none" or "Ok"
    writer,      \* the fmt::Write of `write!(w, "{}", map)`, if that was
                 \* the last call
    fmtRes,      \* what that write! returned: "none", "Ok" or "Err"
    ctor         \* the constructor call that has just returned or panicked,
                 \* with its arguments; NoCall once anything else has run

vars ==
    <<phase, noColor, formatting, grid, map, sink, drawRes, frames, str,
      strRes,
      writer, fmtRes, ctor>>

(***************************************************************************)
(* Bounds of the model.                                                    *)
(***************************************************************************)
MaxWidth == 2       \* widths 1..MaxWidth
MaxDepth == 2       \* depths 1..MaxDepth
MaxStart == 1       \* the start cell of a grid: (s, s), s in 0..MaxStart
MaxEntries == 2     \* stored entries in the HashMap
MaxRepeat == 1      \* values assigned to a Formatting field: 0..MaxRepeat
MaxFailAt == 12     \* a failing sink rejects its k-th call, k in 1..MaxFailAt
MaxFrames == 2      \* draws in a row onto one sink

RECURSIVE Flatten(_)
Flatten(ss) == IF ss = <<>> THEN <<>> ELSE Head(ss) \o Flatten(Tail(ss))

(***************************************************************************)
(* The entity type of the crate's examples and tests, and its Tile impl.   *)
(***************************************************************************)
Entity == {"Enemy", "Hero", "Air"}

EntityDefault == "Air"

tile(e) ==
    CASE e = "Air"   -> [content |-> <<"[", "-", "]">>, color |-> "dark_grey", bold |-> TRUE]
      [] e = "Hero"  -> [content |-> <<"[", "&", "]">>, color |-> "green", bold |-> TRUE]
      [] e = "Enemy" -> [content |-> <<"[", "@", "]">>, color |-> "red", bold |-> TRUE]

(***************************************************************************)
(* crossterm's commands, each by the pieces its write_ansi writes.  With   *)
(* NO_COLOR set a colour writes nothing, and the sequence is ESC[m.        *)
(***************************************************************************)
Csi == <<"ESC", "[">>

\* Display of Colored::ForegroundColor(c)
AnsiColor(c) ==
    IF noColor THEN <<>>
    ELSE CASE c = "reset"     -> << <<"3", "9">> >>
           [] c = "dark_grey" -> << <<"3", "8", ";">>, <<"5", ";", "8">> >>
           [] c = "green"     -> << <<"3", "8", ";">>, <<"5", ";", "1", "0">> >>
           [] c = "red"       -> << <<"3", "8", ";">>, <<"5", ";", "9">> >>

SetForegroundColor(c) == <<Csi>> \o AnsiColor(c) \o << <<"m">> >>

\* SetAttributes of the one attribute Bold
SetAttributesBold == <<Csi, <<"1">>, <<"m">>>>

ResetColor == << <<"ESC", "[", "0", "m">> >>

\* Print(text): one piece
PrintText(text) == <<text>>

\* PrintStyledContent(sc): the foreground colour, the attributes, the
\* content, and ResetColor after attributes or else the foreground reset
PrintStyledContent(sc) ==
    SetForegroundColor(sc.color)
    \o (IF sc.bold THEN SetAttributesBold ELSE <<>>)
    \o <<sc.content>>
    \o (IF sc.bold THEN ResetColor ELSE SetForegroundColor("reset"))

\* the text of a StyledContent, on either path
StyledAnsi(sc) == Flatten(PrintStyledContent(sc))

(***************************************************************************)
(* Formatting and its Default.                                             *)
(***************************************************************************)
FormattingDefault ==
    [row_spacing |-> 1, tile_spacing |-> 1, top_indent |-> 3,
     left_indent |-> 1, bottom_indent |-> 2]

FormatField ==
    {"row_spacing", "tile_spacing", "top_indent", "left_indent", "bottom_indent"}

FormatValue == 0..MaxRepeat

Formatting == [FormatField -> FormatValue]

\* "\n".repeat(n), "\t".repeat(n), " ".repeat(n)
Repeat(u, n) == [i \in 1..n |-> u]

(***************************************************************************)
(* The grid engine as the crate uses it: Grid::from((start, end)),         *)
(* Grid::new, rows(), cells(), within, GridMap::get / insert / remove.     *)
(***************************************************************************)
Cell(w, d) == <<w, d>>

\* Grid::from((start, end)): the cells from start to end, both included
GridFrom(start, end) == [start |-> start, end |-> end]

\* Grid::new(width, depth): the grid of that size that starts at (0, 0)
GridNew(w, d) == GridFrom(Cell(0, 0), Cell(w - 1, d - 1))

Width(g) == g.end[1] + 1 - g.start[1]

Depth(g) == g.end[2] + 1 - g.start[2]

Within(g, cell) ==
    /\ g.start[1] <= cell[1] /\ cell[1] <= g.end[1]
    /\ g.start[2] <= cell[2] /\ cell[2] <= g.end[2]

\* grid.rows(): the rows by ascending depth.  The grid engine is a crate of
\* its own; the order of rows() and of cells() is the one the specification
\* states for it.
rows(g) == [i \in 1..Depth(g) |-> g.start[2] + i - 1]

\* row.cells(): the cells of a row by ascending width
cells(g, row) == [i \in 1..Width(g) |-> Cell(g.start[1] + i - 1, row)]

EmptyMap == [c \in {} |-> EntityDefault]

\* a fault: the lookup with the two coordinates exchanged
GetOrDefaultTransposed(m, cell) ==
    IF Cell(cell[2], cell[1]) \in DOMAIN m THEN m[Cell(cell[2], cell[1])] ELSE EntityDefault

\* self.get(&cell).unwrap_or(&T::default())
GetOrDefault(m, cell) == IF cell \in DOMAIN m THEN m[cell] ELSE EntityDefault

MapInsert(m, cell, v) == [c \in DOMAIN m \cup {cell} |-> IF c = cell THEN v ELSE m[c]]

MapRemove(m, cell) == [c \in DOMAIN m \ {cell} |-> m[c]]

(***************************************************************************)
(* Results.  A call on a writer w returns Ok or Err and leaves the writer  *)
(* as [w, res]; `?` returns an Err at once and goes on after an Ok.        *)
(***************************************************************************)
Ok(w) == [w |-> w, res |-> "Ok"]

Err(w) == [w |-> w, res |-> "Err"]

\* r?, followed by Rest on the writer as r left it
Try(r, Rest(_)) == IF r.res = "Err" THEN r ELSE Rest(r.w)

(***************************************************************************)
(* The io::Write sink of draw.  It counts the calls it receives (write and *)
(* flush) and rejects call number failAt, once, with an error of the kind  *)
(* `kind`; failAt = 0 rejects none.  A write call takes at most `chunk`    *)
(* characters (chunk = 0: all of them).                                    *)
(***************************************************************************)
ErrorKind == {"Other", "Interrupted"}

ChunkSizes == {0, 1}

SinkNew(failAt, kind, chunk) ==
    [buf |-> <<>>, calls |-> 0, failAt |-> failAt, kind |-> kind, chunk |-> chunk]

\* how many characters of text one write call takes
Taken(s, text) == IF s.chunk = 0 \/ s.chunk > Len(text) THEN Len(text) ELSE s.chunk

\* Write::write: the sink takes the first characters of text, or rejects
SinkWrite(s, text) ==
    IF s.calls + 1 = s.failAt
    THEN Err([s EXCEPT !.calls = @ + 1])
    ELSE Ok([s EXCEPT !.calls = @ + 1, !.buf = @ \o SubSeq(text, 1, Taken(s, text))])

\* Write::write_all of std: writes until the text is taken, tries again
\* after an Interrupted error, and returns any other error
RECURSIVE SinkWriteAll(_, _)
SinkWriteAll(s, text) ==
    IF text = <<>>
    THEN Ok(s)
    ELSE IF s.calls + 1 = s.failAt
    THEN IF s.kind = "Interrupted"
         THEN SinkWriteAll(SinkWrite(s, text).w, text)
         ELSE SinkWrite(s, text)
    ELSE SinkWriteAll(SinkWrite(s, text).w,
                      SubSeq(text, Taken(s, text) + 1, Len(text)))

\* Write::flush: an error of any kind is returned
SinkFlush(s) ==
    IF s.calls + 1 = s.failAt
    THEN Err([s EXCEPT !.calls = @ + 1])
    ELSE Ok([s EXCEPT !.calls = @ + 1])

\* command.write_ansi through crossterm's Adapter: write_all per piece
RECURSIVE WriteAnsi(_, _)
WriteAnsi(s, pieces) ==
    IF pieces = <<>>
    THEN Ok(s)
    ELSE Try(SinkWriteAll(s, Head(pieces)), LAMBDA s1 : WriteAnsi(s1, Tail(pieces)))

\* queue!: the commands in order, stopping at the first failure.
RECURSIVE Queue(_, _)
Queue(s, commands) ==
    IF commands = <<>>
    THEN Ok(s)
    ELSE Try(WriteAnsi(s, Head(commands)), LAMBDA s1 : Queue(s1, Tail(commands)))

\* execute!: queue the commands, then flush.
Execute(s, commands) == Try(Queue(s, commands), LAMBDA s1 : SinkFlush(s1))

(***************************************************************************)
(* TileMap::draw.  `self` is [formatting, grid, map].                      *)
(***************************************************************************)
\* a fault: at least one space before a tile (`tile_spacing.max(1)`)
RECURSIVE DrawCellsPadded(_, _, _, _)
DrawCellsPadded(self, s, cs, i) ==
    IF i > Len(cs)
    THEN Ok(s)
    ELSE Try(Execute(s,
                 <<PrintText(Repeat(" ", IF self.formatting.tile_spacing = 0 THEN 1
                                         ELSE self.formatting.tile_spacing)),
                   PrintStyledContent(tile(GetOrDefault(self.map, cs[i])))>>),
             LAMBDA s1 : DrawCellsPadded(self, s1, cs, i + 1))

\* a fault: the cells of a row taken from the last to the first
\* (`row.cells().rev()`)
RECURSIVE DrawCellsReversed(_, _, _, _)
DrawCellsReversed(self, s, cs, i) ==
    IF i > Len(cs)
    THEN Ok(s)
    ELSE Try(Execute(s,
                 <<PrintText(Repeat(" ", self.formatting.tile_spacing)),
                   PrintStyledContent(tile(GetOrDefault(self.map, cs[Len(cs) + 1 - i])))>>),
             LAMBDA s1 : DrawCellsReversed(self, s1, cs, i + 1))

\* the loop `for cell in row.cells()`, from its i-th cell on
RECURSIVE DrawCells(_, _, _, _)
DrawCells(self, s, cs, i) ==
    IF i > Len(cs)
    THEN Ok(s)
    ELSE Try(Execute(s,
                 <<PrintText(Repeat(" ", self.formatting.tile_spacing)),
                   PrintStyledContent(tile(GetOrDefault(self.map, cs[i])))>>),
             LAMBDA s1 : DrawCells(self, s1, cs, i + 1))

\* a fault: the result of the cell loop dropped (no `?`), so that the row
\* goes on after a rejected call
RECURSIVE DrawRowsKeepsGoing(_, _, _, _)
DrawRowsKeepsGoing(self, s, rs, i) ==
    IF i > Len(rs)
    THEN Ok(s)
    ELSE Try(Execute(s,
                 <<PrintText(Repeat("\n", self.formatting.row_spacing)),
                   PrintText(Repeat("\t", self.formatting.left_indent))>>),
             LAMBDA s1 :
         Try(Execute(DrawCells(self, s1, cells(self.grid, rs[i]), 1).w,
                     <<PrintText(<<"\n">>)>>),
             LAMBDA s3 : DrawRowsKeepsGoing(self, s3, rs, i + 1)))

\* the loop `for row in self.grid().rows()`, from its i-th row on
RECURSIVE DrawRows(_, _, _, _)
DrawRows(self, s, rs, i) ==
    IF i > Len(rs)
    THEN Ok(s)
    ELSE Try(Execute(s,
                 <<PrintText(Repeat("\n", self.formatting.row_spacing)),
                   PrintText(Repeat("\t", self.formatting.left_indent))>>),
             LAMBDA s1 :
         Try(DrawCells(self, s1, cells(self.grid, rs[i]), 1),
             LAMBDA s2 :
         Try(Execute(s2, <<PrintText(<<"\n">>)>>),
             LAMBDA s3 : DrawRows(self, s3, rs, i + 1))))

\* a fault: top_indent used for the closing newlines too
drawBottomAsTop(self, stdout) ==
    Try(Execute(stdout, <<PrintText(Repeat("\n", self.formatting.top_indent))>>),
        LAMBDA s1 :
    Try(DrawRows(self, s1, rows(self.grid), 1),
        LAMBDA s2 :
    Execute(s2, <<PrintText(Repeat("\n", self.formatting.top_indent))>>)))

draw(self, stdout) ==
    Try(Execute(stdout, <<PrintText(Repeat("\n", self.formatting.top_indent))>>),
        LAMBDA s1 :
    Try(DrawRows(self, s1, rows(self.grid), 1),
        LAMBDA s2 :
    Execute(s2, <<PrintText(Repeat("\n", self.formatting.bottom_indent))>>)))

(***************************************************************************)
(* <TileMap as Display>::fmt.  The Formatter hands every piece to its      *)
(* fmt::Write, one write_str call per piece, the empty ones of             *)
(* `write!(f, "{}", "".repeat(0))` included.  The writer counts the calls  *)
(* and rejects call number failAt (0: none); a String rejects none.        *)
(***************************************************************************)
WriterNew(failAt) == [buf |-> <<>>, calls |-> 0, failAt |-> failAt]

\* String::new()
StringNew == WriterNew(0)

write_str(f, text) ==
    IF f.calls + 1 = f.failAt
    THEN Err([f EXCEPT !.calls = @ + 1])
    ELSE Ok([f EXCEPT !.calls = @ + 1, !.buf = @ \o text])

\* Display of StyledContent: the pieces of PrintStyledContent
RECURSIVE FmtAnsi(_, _)
FmtAnsi(f, pieces) ==
    IF pieces = <<>>
    THEN Ok(f)
    ELSE Try(write_str(f, Head(pieces)), LAMBDA f1 : FmtAnsi(f1, Tail(pieces)))

\* a fault: the spaces between the tiles of a row only, none before the first
RECURSIVE FmtCellsBetween(_, _, _, _)
FmtCellsBetween(self, f, cs, i) ==
    IF i > Len(cs)
    THEN Ok(f)
    ELSE Try(write_str(f, IF i = 1 THEN <<>>
                          ELSE Repeat(" ", self.formatting.tile_spacing)),
             LAMBDA f1 :
         Try(FmtAnsi(f1, PrintStyledContent(tile(GetOrDefault(self.map, cs[i])))),
             LAMBDA f2 : FmtCellsBetween(self, f2, cs, i + 1)))

\* the loop `for cell in row.cells()`, from its i-th cell on
RECURSIVE FmtCells(_, _, _, _)
FmtCells(self, f, cs, i) ==
    IF i > Len(cs)
    THEN Ok(f)
    ELSE Try(write_str(f, Repeat(" ", self.formatting.tile_spacing)),
             LAMBDA f1 :
         Try(FmtAnsi(f1, PrintStyledContent(tile(GetOrDefault(self.map, cs[i])))),
             LAMBDA f2 : FmtCells(self, f2, cs, i + 1)))

\* a fault: the default row spacing, not the one of self.formatting
RECURSIVE FmtRowsFixedSpacing(_, _, _, _)
FmtRowsFixedSpacing(self, f, rs, i) ==
    IF i > Len(rs)
    THEN Ok(f)
    ELSE Try(write_str(f, Repeat("\n", FormattingDefault.row_spacing)),
             LAMBDA f1 :
         Try(write_str(f1, Repeat("\t", self.formatting.left_indent)),
             LAMBDA f2 :
         Try(FmtCells(self, f2, cells(self.grid, rs[i]), 1),
             LAMBDA f3 :
         Try(write_str(f3, <<"\n">>),
             LAMBDA f4 : FmtRowsFixedSpacing(self, f4, rs, i + 1)))))

\* the loop `for row in self.grid().rows()`, from its i-th row on
RECURSIVE FmtRows(_, _, _, _)
FmtRows(self, f, rs, i) ==
    IF i > Len(rs)
    THEN Ok(f)
    ELSE Try(write_str(f, Repeat("\n", self.formatting.row_spacing)),
             LAMBDA f1 :
         Try(write_str(f1, Repeat("\t", self.formatting.left_indent)),
             LAMBDA f2 :
         Try(FmtCells(self, f2, cells(self.grid, rs[i]), 1),
             LAMBDA f3 :
         Try(write_str(f3, <<"\n">>),
             LAMBDA f4 : FmtRows(self, f4, rs, i + 1)))))

\* a fault: the closing newlines left out
fmtNoBottomIndent(self, f) ==
    Try(write_str(f, Repeat("\n", self.formatting.top_indent)),
        LAMBDA f1 : FmtRows(self, f1, rows(self.grid), 1))

fmt(self, f) ==
    Try(write_str(f, Repeat("\n", self.formatting.top_indent)),
        LAMBDA f1 :
    Try(FmtRows(self, f1, rows(self.grid), 1),
        LAMBDA f2 : write_str(f2, Repeat("\n", self.formatting.bottom_indent))))

(***************************************************************************)
(* The state machine: one constructor, then mutations through DerefMut,    *)
(* assignments to the public `formatting` field, and renders.              *)
(***************************************************************************)
Self == [formatting |-> formatting, grid |-> grid, map |-> map]

Widths == 1..MaxWidth

Depths == 1..MaxDepth

\* the start cells of the grids: (0, 0) as in Grid::new, and cells off it
\* as in Grid::from((Cell::new(2, 2), Cell::new(5, 5)))
Starts == {Cell(s, s) : s \in 0..MaxStart}

Grids ==
    {GridFrom(s, Cell(s[1] + w - 1, s[2] + d - 1)) :
        s \in Starts, w \in Widths, d \in Depths}

\* The cells a caller may name: those of the grids of the model.  Every
\* grid but the largest at (0, 0) leaves some of them outside.
CellSpace == (0..(MaxStart + MaxWidth - 1)) \X (0..(MaxStart + MaxDepth - 1))

\* the HashMap<Cell, T> values of at most n entries
RECURSIVE HashMapsOf(_)
HashMapsOf(n) ==
    IF n = 0 THEN {EmptyMap}
    ELSE LET less == HashMapsOf(n - 1)
         IN  less \cup {MapInsert(m, c, v) : m \in less, c \in CellSpace, v \in Entity}

HashMaps == HashMapsOf(MaxEntries)

\* GridMap<T> values: every stored cell is within the grid.
GridMaps ==
    {gm \in [grid : Grids, map : HashMaps] : \A c \in DOMAIN gm.map : Within(gm.grid, c)}

\* GridMap::from((grid, hashmap)): panics on a cell that is not within grid.
GridMapFrom(g, hm) ==
    IF \A c \in DOMAIN hm : Within(g, c)
    THEN [panic |-> FALSE, grid |-> g, map |-> hm]
    ELSE [panic |-> TRUE, grid |-> g, map |-> EmptyMap]

\* no TileMap: the value of `grid` before construction and after a panic
NoGrid == GridFrom(Cell(1, 1), Cell(0, 0))

NoDraw ==
    /\ sink' = SinkNew(0, "Other", 0)
    /\ drawRes' = "none"
    /\ frames' = 0

NoString ==
    /\ str' = <<>>
    /\ strRes' = "none"

NoWrite ==
    /\ writer' = WriterNew(0)
    /\ fmtRes' = "none"

NoRender == NoDraw /\ NoString /\ NoWrite

NoCall ==
    [op |-> "none", grid |-> NoGrid, entries |-> EmptyMap,
     formatting |-> FormattingDefault]

Called(op, g, hm, f) == [op |-> op, grid |-> g, entries |-> hm, formatting |-> f]

\* a panic after construction that nothing catches: the TileMap is gone
Panic ==
    /\ phase' = "panicked"
    /\ formatting' = FormattingDefault
    /\ grid' = NoGrid
    /\ map' = EmptyMap
    /\ NoRender
    /\ ctor' = NoCall
    /\ UNCHANGED noColor

Init ==
    /\ phase = "unbuilt"
    /\ noColor \in BOOLEAN
    /\ formatting = FormattingDefault
    /\ grid = NoGrid
    /\ map = EmptyMap
    /\ sink = SinkNew(0, "Other", 0)
    /\ drawRes = "none"
    /\ frames = 0
    /\ str = <<>>
    /\ strRes = "none"
    /\ writer = WriterNew(0)
    /\ fmtRes = "none"
    /\ ctor = NoCall

\* TileMap::new(width, depth)
New(w, d) ==
    /\ phase = "unbuilt"
    /\ phase' = "live"
    /\ formatting' = FormattingDefault
    /\ grid' = GridNew(w, d)
    /\ map' = EmptyMap
    /\ ctor' = Called("new", GridNew(w, d), EmptyMap, FormattingDefault)
    /\ UNCHANGED <<noColor, sink, drawRes, frames, str, strRes, writer, fmtRes>>

\* TileMap::formatted(width, depth, formatting)
Formatted(w, d, f) ==
    /\ phase = "unbuilt"
    /\ phase' = "live"
    /\ formatting' = f
    /\ grid' = GridNew(w, d)
    /\ map' = EmptyMap
    /\ ctor' = Called("formatted", GridNew(w, d), EmptyMap, f)
    /\ UNCHANGED <<noColor, sink, drawRes, frames, str, strRes, writer, fmtRes>>

\* TileMap::from(grid)
FromGrid(g) ==
    /\ phase = "unbuilt"
    /\ phase' = "live"
    /\ formatting' = FormattingDefault
    /\ grid' = g
    /\ map' = EmptyMap
    /\ ctor' = Called("from_grid", g, EmptyMap, FormattingDefault)
    /\ UNCHANGED <<noColor, sink, drawRes, frames, str, strRes, writer, fmtRes>>

\* TileMap::from(gridmap)
FromGridMap(gm) ==
    /\ phase = "unbuilt"
    /\ phase' = "live"
    /\ formatting' = FormattingDefault
    /\ grid' = gm.grid
    /\ map' = gm.map
    /\ ctor' = Called("from_gridmap", gm.grid, gm.map, FormattingDefault)
    /\ UNCHANGED <<noColor, sink, drawRes, frames, str, strRes, writer, fmtRes>>

\* a fault: entries outside the grid dropped instead of the panic
FromGridHashMapLenient(g, hm) ==
    /\ phase = "unbuilt"
    /\ phase' = "live"
    /\ formatting' = FormattingDefault
    /\ grid' = g
    /\ map' = [c \in {x \in DOMAIN hm : Within(g, x)} |-> hm[c]]
    /\ ctor' = Called("from_grid_hashmap", g, hm, FormattingDefault)
    /\ UNCHANGED <<noColor, sink, drawRes, frames, str, strRes, writer, fmtRes>>

\* TileMap::from((grid, hashmap))
FromGridHashMap(g, hm) ==
    /\ phase = "unbuilt"
    /\ LET gm == GridMapFrom(g, hm)
       IN  IF gm.panic
           THEN /\ phase' = "panicked"
                /\ UNCHANGED <<formatting, grid, map>>
           ELSE /\ phase' = "live"
                /\ formatting' = FormattingDefault
                /\ grid' = gm.grid
                /\ map' = gm.map
    /\ ctor' = Called("from_grid_hashmap", g, hm, FormattingDefault)
    /\ UNCHANGED <<noColor, sink, drawRes, frames, str, strRes, writer, fmtRes>>

\* map.insert(cell, value) through deref_mut: the grid engine stores the
\* value at a cell within its grid and panics on any other cell, before it
\* changes anything.  The panic ends the program, or the caller catches it
\* (catch_unwind) and goes on with the map as it was.
Insert(cell, v) ==
    /\ phase = "live"
    /\ IF Within(grid, cell)
       THEN /\ Cardinality(DOMAIN map \cup {cell}) <= MaxEntries
            /\ map' = MapInsert(map, cell, v)
            /\ NoRender
            /\ ctor' = NoCall
            /\ UNCHANGED <<phase, noColor, formatting, grid>>
       ELSE \/ Panic
            \/ /\ NoRender
               /\ ctor' = NoCall
               /\ UNCHANGED <<phase, noColor, formatting, grid, map>>

\* map.remove(&cell) through deref_mut
Remove(cell) ==
    /\ phase = "live"
    /\ cell \in DOMAIN map
    /\ map' = MapRemove(map, cell)
    /\ NoRender
    /\ ctor' = NoCall
    /\ UNCHANGED <<phase, noColor, formatting, grid>>

\* *map.deref_mut() = GridMap::from(g): the inner GridMap replaced as a whole
ReplaceGridMap(g) ==
    /\ phase = "live"
    /\ grid' = g
    /\ map' = EmptyMap
    /\ NoRender
    /\ ctor' = NoCall
    /\ UNCHANGED <<phase, noColor, formatting>>

\* map.formatting.<field> = v
SetFormatting(field, v) ==
    /\ phase = "live"
    /\ formatting[field] # v
    /\ formatting' = [formatting EXCEPT ![field] = v]
    /\ NoRender
    /\ ctor' = NoCall
    /\ UNCHANGED <<phase, noColor, grid, map>>

\* a fault: the default stored at every cell that had no value
\* (`entry(cell).or_default()`)
DrawStoringDefaults(s) ==
    /\ phase = "live"
    /\ LET r == draw(Self, s)
       IN  sink' = r.w /\ drawRes' = r.res
    /\ frames' = 1
    /\ map' = [c \in {x \in CellSpace : Within(grid, x)} |->
                  IF c \in DOMAIN map THEN map[c] ELSE EntityDefault]
    /\ NoString
    /\ NoWrite
    /\ ctor' = NoCall
    /\ UNCHANGED <<phase, noColor, formatting, grid>>

\* map.draw(&mut s)
Draw(s) ==
    /\ phase = "live"
    /\ LET r == draw(Self, s)
       IN  sink' = r.w /\ drawRes' = r.res
    /\ frames' = 1
    /\ NoString
    /\ NoWrite
    /\ ctor' = NoCall
    /\ UNCHANGED <<phase, noColor, formatting, grid, map>>

\* map.draw(&mut s) once more, onto the sink of the draw before: a stream
\* such as stdout takes one frame after the other
DrawAgain ==
    /\ phase = "live"
    /\ drawRes = "Ok"
    /\ frames < MaxFrames
    /\ LET r == draw(Self, sink)
       IN  sink' = r.w /\ drawRes' = r.res
    /\ frames' = frames + 1
    /\ NoString
    /\ NoWrite
    /\ ctor' = NoCall
    /\ UNCHANGED <<phase, noColor, formatting, grid, map>>

\* map.to_string(): fmt onto a String; to_string panics if fmt returns Err
ToString ==
    /\ phase = "live"
    /\ LET r == fmt(Self, StringNew)
       IN  IF r.res = "Ok"
       THEN /\ str' = r.w.buf
            /\ strRes' = "Ok"
            /\ NoDraw
            /\ NoWrite
            /\ ctor' = NoCall
            /\ UNCHANGED <<phase, noColor, formatting, grid, map>>
       ELSE Panic

\* write!(w, "{}", map), w a fmt::Write that rejects its failAt-th call
WriteFmt(failAt) ==
    /\ phase = "live"
    /\ LET r == fmt(Self, WriterNew(failAt))
       IN  writer' = r.w /\ fmtRes' = r.res
    /\ NoDraw
    /\ NoString
    /\ ctor' = NoCall
    /\ UNCHANGED <<phase, noColor, formatting, grid, map>>

AllZero ==
    [row_spacing |-> 0, tile_spacing |-> 0, top_indent |-> 0,
     left_indent |-> 0, bottom_indent |-> 0]

\* Every constructor, mutation and formatting, rendered onto a sink that
\* accepts every call and into a String.  A constructor runs first, once.
Next ==
    \/ /\ phase = "unbuilt"
       /\ \E w \in Widths, d \in Depths : New(w, d)
    \/ /\ phase = "unbuilt"
       /\ \E w \in Widths, d \in Depths, f \in Formatting : Formatted(w, d, f)
    \/ /\ phase = "unbuilt"
       /\ \E g \in Grids : FromGrid(g)
    \/ /\ phase = "unbuilt"
       /\ \E gm \in GridMaps : FromGridMap(gm)
    \/ /\ phase = "unbuilt"
       /\ \E g \in Grids, hm \in HashMaps : FromGridHashMap(g, hm)
    \/ \E c \in CellSpace, v \in Entity : Insert(c, v)
    \/ \E c \in CellSpace : Remove(c)
    \/ \E g \in Grids : ReplaceGridMap(g)
    \/ \E field \in FormatField, v \in FormatValue : SetFormatting(field, v)
    \/ Draw(SinkNew(0, "Other", 0))
    \/ DrawAgain
    \/ ToString

Spec == Init /\ [][Next]_vars

\* The sinks of the model: those that reject no call, and those that reject
\* their k-th call.
Sinks ==
    {SinkNew(0, "Other", chunk) : chunk \in ChunkSizes}
    \cup {SinkNew(k, kind, chunk) :
              k \in 1..MaxFailAt, kind \in ErrorKind, chunk \in ChunkSizes}

\* The renders onto sinks and writers that reject a call or take one
\* character per write, over the maps of new and of formatted with all
\* fields 0, holding Hero entities.
NextIO ==
    \/ \E w \in Widths, d \in Depths : New(w, d)
    \/ \E w \in Widths, d \in Depths : Formatted(w, d, AllZero)
    \/ \E c \in CellSpace : Insert(c, "Hero")
    \/ \E s \in Sinks : Draw(s)
    \/ \E k \in 1..MaxFailAt : WriteFmt(k)
    \/ ToString

SpecIO == Init /\ [][NextIO]_vars

(***************************************************************************)
(* The layout of a render in closed form: the text of a grid g holding m   *)
(* under formatting f.                                                     *)
(***************************************************************************)
Token(e) == StyledAnsi(tile(e))

\* the value a cell shows: the stored one, or the default
ValueAt(m, cell) == IF cell \in DOMAIN m THEN m[cell] ELSE EntityDefault

\* the cell in column c and row r of g, both counted from 1
CellOf(g, c, r) == Cell(g.start[1] + c - 1, g.start[2] + r - 1)

LayoutRow(g, m, f, r) ==
    Repeat("\n", f.row_spacing) \o Repeat("\t", f.left_indent)
    \o Flatten([c \in 1..Width(g) |->
           Repeat(" ", f.tile_spacing) \o Token(ValueAt(m, CellOf(g, c, r)))])
    \o <<"\n">>

Layout(g, m, f) ==
    Repeat("\n", f.top_indent)
    \o Flatten([r \in 1..Depth(g) |-> LayoutRow(g, m, f, r)])
    \o Repeat("\n", f.bottom_indent)

IsWhitespace(u) == u \in {"\n", "\t", " "}

\* a token ends with the reset sequence: one ends at position j of text
EndsToken(text, j) ==
    /\ j >= 4
    /\ text[j - 3] = "ESC" /\ text[j - 2] = "[" /\ text[j - 1] = "0" /\ text[j] = "m"

\* the set S of numbers as an ascending sequence
RECURSIVE Ascending(_)
Ascending(S) ==
    IF S = {} THEN <<>>
    ELSE LET least == CHOOSE x \in S : \A y \in S : x <= y
         IN  <<least>> \o Ascending(S \ {least})

\* The tokens of a text are its runs without whitespace, cut after every
\* reset: the positions of their first and of their last characters.
TokenStarts(text) ==
    {i \in 1..Len(text) :
        /\ ~IsWhitespace(text[i])
        /\ i = 1 \/ IsWhitespace(text[i - 1]) \/ EndsToken(text, i - 1)}

TokenEnds(text) ==
    {i \in 1..Len(text) :
        /\ ~IsWhitespace(text[i])
        /\ i = Len(text) \/ IsWhitespace(text[i + 1]) \/ EndsToken(text, i)}

\* the tokens of a text, in order
Tokens(text) ==
    LET first == Ascending(TokenStarts(text))
        last == Ascending(TokenEnds(text))
    IN  [k \in 1..Len(first) |-> SubSeq(text, first[k], last[k])]

\* the position in text of the first character of its k-th token
TokenPosition(text, k) == Ascending(TokenStarts(text))[k]

IsNotSpace(u) == u # " "

\* a text without its separator spaces
WithoutSpaces(text) == SelectSeq(text, IsNotSpace)

\* the cell whose token is the k-th of a render of g, in row-major order
RowMajorCell(g, k) == CellOf(g, ((k - 1) % Width(g)) + 1, ((k - 1) \div Width(g)) + 1)

InBounds(g) == {c \in CellSpace : Within(g, c)}

\* draw has returned Ok, and the sink holds that one frame
DrawnOk == phase = "live" /\ drawRes = "Ok" /\ frames = 1

Stringed == phase = "live" /\ strRes = "Ok"

\* what to_string gives for self
ToText(self) == fmt(self, StringNew).w.buf

\* what draw writes for self to a sink that accepts every call
ToSink(self) == draw(self, SinkNew(0, "Other", 0)).w.buf

(***************************************************************************)
(* C1.  The text of to_string (Display::fmt) equals the text that draw     *)
(* writes to a sink that accepts every call: the same characters in the    *)
(* same order, for every grid, stored entities and formatting.             *)
(***************************************************************************)
C1_RenderPathsAgree ==
    /\ (DrawnOk /\ sink.failAt = 0) => sink.buf = ToText(Self)
    /\ Stringed => str = ToSink(Self)

C1_Witness ==
    /\ DrawnOk
    /\ grid = GridFrom(Cell(1, 1), Cell(2, 2))
    /\ Cardinality(DOMAIN map) = 2
    /\ formatting # FormattingDefault
    /\ sink.buf = ToText(Self)
    /\ Len(Tokens(sink.buf)) = 4

(***************************************************************************)
(* C2.  A successful render is exactly: top_indent newlines; per row,      *)
(* row_spacing newlines, left_indent tabs, per cell tile_spacing spaces    *)
(* and the cell's token, one newline; bottom_indent newlines.  A 2x1 grid  *)
(* with default formatting and "[&]" at (0,0) renders as 3 newlines, 1     *)
(* newline, 1 tab, " [&] [-]", newline, 2 newlines.                        *)
(***************************************************************************)
C2_Example ==
    <<"\n", "\n", "\n", "\n", "\t", " ">> \o Token("Hero") \o <<" ">> \o Token("Air")
    \o <<"\n", "\n", "\n">>

C2_ExampleState ==
    /\ grid = GridNew(2, 1)
    /\ formatting = FormattingDefault
    /\ DOMAIN map = {Cell(0, 0)}
    /\ map[Cell(0, 0)] = "Hero"

\* C2: both renders are the closed-form layout, and the 2x1 example is as stated.
C2_ExactLayout ==
    /\ DrawnOk => sink.buf = Layout(grid, map, formatting)
    /\ Stringed => str = Layout(grid, map, formatting)
    /\ (DrawnOk /\ C2_ExampleState) => sink.buf = C2_Example
    /\ (Stringed /\ C2_ExampleState) => str = C2_Example

C2_Witness ==
    /\ DrawnOk
    /\ C2_ExampleState
    /\ ~noColor
    /\ sink.buf = C2_Example
    /\ tile("Hero").content = <<"[", "&", "]">>
    /\ sink.calls = 31

(***************************************************************************)
(* C3.  After any inserts and removes, the k-th token of a render is the   *)
(* token of the value stored at the k-th cell in row-major order, and the  *)
(* token of the default value where nothing is stored; so an empty grid    *)
(* renders the default token everywhere and an insert at C changes the     *)
(* token at C only, as a remove at C does.                                 *)
(***************************************************************************)
ExpectedTokens(g, m) ==
    [k \in 1..(Width(g) * Depth(g)) |->
        IF RowMajorCell(g, k) \in DOMAIN m
        THEN Token(m[RowMajorCell(g, k)])
        ELSE Token(EntityDefault)]

\* self with v stored at cell, as map.insert(cell, v) leaves it
Inserted(self, cell, v) == [self EXCEPT !.map = MapInsert(self.map, cell, v)]

\* self without the value at cell, as map.remove(&cell) leaves it
Removed(self, cell) == [self EXCEPT !.map = MapRemove(self.map, cell)]

\* the tokens `after` are the tokens `before` but for the token of cell C
OnlyTokenOf(g, C, token, before, after) ==
    after = [k \in 1..Len(before) |->
                IF RowMajorCell(g, k) = C THEN token ELSE before[k]]

C3_Tokens ==
    /\ DrawnOk => Tokens(sink.buf) = ExpectedTokens(grid, map)
    /\ Stringed => Tokens(str) = ExpectedTokens(grid, map)
    /\ (DrawnOk /\ DOMAIN map = {}) =>
           \A k \in 1..Len(Tokens(sink.buf)) : Tokens(sink.buf)[k] = Token(EntityDefault)
    /\ Stringed =>
           LET shown == Tokens(str)
           IN  /\ \A C \in InBounds(grid), v \in Entity :
                      OnlyTokenOf(grid, C, Token(v), shown,
                                  Tokens(ToText(Inserted(Self, C, v))))
               /\ \A C \in DOMAIN map :
                      OnlyTokenOf(grid, C, Token(EntityDefault), shown,
                                  Tokens(ToText(Removed(Self, C))))

SelfNext == [formatting |-> formatting', grid |-> grid', map |-> map']

\* the cells at which two maps differ
Changed(m1, m2) ==
    {c \in CellSpace :
        \/ (c \in DOMAIN m1) # (c \in DOMAIN m2)
        \/ c \in DOMAIN m1 /\ c \in DOMAIN m2 /\ m1[c] # m2[c]}

\* an insert or a remove changes the map at one cell, which is within the
\* grid, and so the token of that cell at most
C3_OneCell ==
    (/\ phase = "live" /\ phase' = "live"
     /\ grid' = grid /\ formatting' = formatting
     /\ Cardinality(Changed(map, map')) = 1) =>
        LET C == CHOOSE c \in Changed(map, map') : TRUE
        IN  /\ Within(grid, C)
            /\ \/ SelfNext = Inserted(Self, C, ValueAt(map', C))
               \/ SelfNext = Removed(Self, C)
            /\ OnlyTokenOf(grid, C, Token(ValueAt(map', C)),
                           ExpectedTokens(grid, map), ExpectedTokens(grid, map'))

\* C3: every token is the stored value's or the default's, and a mutation of the
\* map at one cell changes the token of that cell at most.
C3_StoredOrDefault == [](C3_Tokens) /\ [][C3_OneCell]_vars

C3_Witness ==
    /\ DrawnOk
    /\ grid = GridNew(2, 2)
    /\ DOMAIN map = {Cell(1, 0)}
    /\ map[Cell(1, 0)] = "Enemy"
    /\ Tokens(sink.buf) = <<Token("Air"), Token("Enemy"), Token("Air"), Token("Air")>>

(***************************************************************************)
(* C4.  A render shows the cells in row-major order, rows by ascending     *)
(* row index and the cells of a row by ascending column index, each cell   *)
(* of the grid exactly once; and renders repeated with nothing modified in *)
(* between give the same output.  Where a cell is shown is read off the    *)
(* rendered text: it is the token that changes when the value at the cell  *)
(* does.                                                                   *)
(***************************************************************************)
RowMajorBefore(a, b) == a[2] < b[2] \/ (a[2] = b[2] /\ a[1] < b[1])

\* the place of cell C among the cells of g in row-major order, from 1
RowMajorRank(g, C) == Cardinality({c \in InBounds(g) : RowMajorBefore(c, C)}) + 1

\* a value whose token is not the one self shows at cell C
Probe(self, C) == IF ValueAt(self.map, C) = "Hero" THEN "Enemy" ELSE "Hero"

\* the places at which two token sequences differ
Differing(before, after) ==
    {k \in 1..Len(before) : k > Len(after) \/ after[k] # before[k]}

\* the line of position i of text: the number of newlines before it
LineOf(text, i) == Cardinality({j \in 1..(i - 1) : text[j] = "\n"})

\* the value of one cell exchanged, for each cell of the grid in turn: the
\* tokens of the text that to_string, or draw, then gives
ProbedText(self) == [C \in InBounds(self.grid) |->
                        Tokens(ToText(Inserted(self, C, Probe(self, C))))]

ProbedSink(self) == [C \in InBounds(self.grid) |->
                        Tokens(ToSink(Inserted(self, C, Probe(self, C))))]

\* text, a render of self, has one token per cell of the grid; the token of
\* cell C, the one that probed[C] changes, is at C's row-major place; the
\* tokens of a row are on one line, and the rows follow each other down
\* the text
RowMajor(self, text, probed) ==
    LET t == Tokens(text)
        first == Ascending(TokenStarts(text))
        line == [k \in 1..Len(first) |-> LineOf(text, first[k])]
    IN  /\ Len(t) = Cardinality(InBounds(self.grid))
        /\ \A C \in InBounds(self.grid) :
               /\ Len(probed[C]) = Len(t)
               /\ Differing(t, probed[C]) = {RowMajorRank(self.grid, C)}
        /\ \A a, b \in InBounds(self.grid) :
               /\ a[2] < b[2] <=>
                      line[RowMajorRank(self.grid, a)] < line[RowMajorRank(self.grid, b)]
               /\ (a[2] = b[2] /\ a[1] < b[1]) =>
                      first[RowMajorRank(self.grid, a)] < first[RowMajorRank(self.grid, b)]

C4_Order ==
    /\ Stringed => RowMajor(Self, str, ProbedText(Self))
    /\ DrawnOk => RowMajor(Self, sink.buf, ProbedSink(Self))

\* n copies of text, one after the other
RECURSIVE Copies(_, _)
Copies(text, n) == IF n = 0 THEN <<>> ELSE text \o Copies(text, n - 1)

\* the frames that draws in a row have written to one sink are the same text
C4_SameFrames ==
    (phase = "live" /\ drawRes = "Ok" /\ frames >= 1) =>
        /\ Len(sink.buf) % frames = 0
        /\ sink.buf = Copies(SubSeq(sink.buf, 1, Len(sink.buf) \div frames), frames)
        /\ sink.buf = Copies(ToSink(Self), frames)

\* a render that follows a render of the same kind gives the text of the first
C4_Repeat ==
    /\ (Stringed /\ strRes' = "Ok") => str' = str
    /\ (phase = "live" /\ drawRes = "Ok" /\ drawRes' = "Ok" /\ frames' = 1) =>
           sink'.buf = SubSeq(sink.buf, 1, Len(sink.buf) \div frames)

RECURSIVE SpacesBefore(_, _)
SpacesBefore(text, i) ==
    IF i > 1 /\ text[i - 1] = " " THEN 1 + SpacesBefore(text, i - 1) ELSE 0

OneMoreSpacePerTile(before, after) ==
    /\ Tokens(after) = Tokens(before)
    /\ \A k \in 1..Len(Tokens(before)) :
           SpacesBefore(after, TokenPosition(after, k))
               = SpacesBefore(before, TokenPosition(before, k)) + 1
    /\ WithoutSpaces(after) = WithoutSpaces(before)
    /\ Len(after) = Len(before) + Len(Tokens(before))

Wider(self) == [self EXCEPT !.formatting.tile_spacing = @ + 1]

\* C5: tile_spacing + 1 puts exactly one more space before every token.
C5_TileSpacingStep ==
    /\ Stringed =>
           /\ OneMoreSpacePerTile(str, ToText(Wider(Self)))
           /\ \A k \in 1..Len(Tokens(str)) :
                  SpacesBefore(str, TokenPosition(str, k)) = formatting.tile_spacing
    /\ DrawnOk => OneMoreSpacePerTile(sink.buf, ToSink(Wider(Self)))

C5_Witness ==
    /\ Stringed
    /\ Width(grid) = 2 /\ Depth(grid) = 2
    /\ formatting.tile_spacing = 1
    /\ Len(ToText(Wider(Self))) = Len(str) + 4
    /\ SpacesBefore(ToText(Wider(Self)), TokenPosition(ToText(Wider(Self)), 3)) = 2

(***************************************************************************)
(* C6.  On a 1x1 grid with all five formatting fields 0 a render is the    *)
(* token of the single cell and one newline, nothing else; formatting of   *)
(* all zeros is accepted by the constructor and by the render.             *)
(***************************************************************************)
C6_Expected == Token(ValueAt(map, grid.start)) \o <<"\n">>

\* C6: 1x1 with all-zero formatting renders as the token and one newline.
C6_ZeroFormatting ==
    (phase = "live" /\ Width(grid) = 1 /\ Depth(grid) = 1 /\ formatting = AllZero) =>
        /\ DrawnOk => sink.buf = C6_Expected
        /\ Stringed => str = C6_Expected
        /\ (drawRes # "none" /\ sink.failAt = 0) => drawRes = "Ok"
        /\ ctor.op = "formatted" => ctor.formatting = AllZero

C6_Witness ==
    /\ DrawnOk
    /\ grid = GridNew(1, 1)
    /\ formatting = AllZero
    /\ ~noColor
    /\ sink.buf = <<"ESC", "[", "3", "8", ";", "5", ";", "1", "0", "m",
                    "ESC", "[", "1", "m", "[", "&", "]", "ESC", "[", "0", "m", "\n">>
    /\ sink.calls = 15

(***************************************************************************)
(* C7.  TileMap::from((grid, hashmap)) panics, and yields no TileMap,      *)
(* when an entry's cell is outside the grid; when every entry is within    *)
(* the grid it returns a TileMap with default formatting in which every    *)
(* entry is found at its cell.                                             *)
(***************************************************************************)
C7_ImportChecked ==
    ctor.op = "from_grid_hashmap" =>
        IF \E c \in DOMAIN ctor.entries : ~Within(ctor.grid, c)
        THEN /\ phase = "panicked"
             /\ grid = NoGrid /\ map = EmptyMap
             /\ ~ENABLED Next
        ELSE /\ phase = "live"
             /\ formatting = FormattingDefault
             /\ grid = ctor.grid
             /\ \A c \in DOMAIN ctor.entries :
                    c \in DOMAIN map /\ map[c] = ctor.entries[c]

C7_Witness ==
    /\ phase = "panicked"
    /\ ctor.op = "from_grid_hashmap"
    /\ ctor.grid = GridNew(2, 2)
    /\ DOMAIN ctor.entries = {Cell(2, 1)}

(***************************************************************************)
(* C8.  When the sink rejects a flush, or rejects a write with an error    *)
(* other than Interrupted, draw stops there: the rejected call is the last *)
(* one the sink receives, draw returns Err, and the sink holds exactly     *)
(* what the calls before it wrote, which may end inside a token.  A write  *)
(* rejected with Interrupted is made again and draw goes on.  draw returns *)
(* Ok exactly when no call was rejected or the rejected call was such a    *)
(* write.                                                                  *)
(***************************************************************************)
Min(a, b) == IF a < b THEN a ELSE b

\* the write calls that write_all makes for a text on a sink taking chunk
\* characters per call
WriteCalls(text, chunk) ==
    IF chunk = 0
    THEN IF text = <<>> THEN <<>> ELSE << [op |-> "write", text |-> text] >>
    ELSE [i \in 1..((Len(text) + chunk - 1) \div chunk) |->
             [op |-> "write",
              text |-> SubSeq(text, (i - 1) * chunk + 1, Min(i * chunk, Len(text)))]]

FlushCall == << [op |-> "flush", text |-> <<>>] >>

\* the write calls of a token: those of each of its pieces
TokenCalls(e, chunk) ==
    LET pieces == PrintStyledContent(tile(e))
    IN  Flatten([p \in 1..Len(pieces) |-> WriteCalls(pieces[p], chunk)])

\* the calls of a whole render on a sink that rejects none, in order
ExpectedCalls(g, m, f, chunk) ==
    WriteCalls(Repeat("\n", f.top_indent), chunk) \o FlushCall
    \o Flatten([r \in 1..Depth(g) |->
           WriteCalls(Repeat("\n", f.row_spacing), chunk)
           \o WriteCalls(Repeat("\t", f.left_indent), chunk) \o FlushCall
           \o Flatten([c \in 1..Width(g) |->
                  WriteCalls(Repeat(" ", f.tile_spacing), chunk)
                  \o TokenCalls(ValueAt(m, CellOf(g, c, r)), chunk) \o FlushCall])
           \o WriteCalls(<<"\n">>, chunk) \o FlushCall])
    \o WriteCalls(Repeat("\n", f.bottom_indent), chunk) \o FlushCall

TextOf(calls) == Flatten([i \in 1..Len(calls) |-> calls[i].text])

\* C8: draw stops at the first rejected call and returns Err, unless that call
\* is a write rejected with Interrupted, which is made again.
C8_StopsAtFirstFailure ==
    (phase = "live" /\ drawRes # "none") =>
        LET calls == ExpectedCalls(grid, map, formatting, sink.chunk)
            hit == sink.failAt \in 1..Len(calls)
            again == /\ hit
                     /\ sink.kind = "Interrupted"
                     /\ calls[sink.failAt].op = "write"
        IN  /\ drawRes = "Err" <=> (hit /\ ~again)
            /\ (hit /\ ~again) =>
                   /\ sink.calls = sink.failAt
                   /\ sink.buf = TextOf(SubSeq(calls, 1, sink.failAt - 1))
            /\ again =>
                   /\ sink.calls = Len(calls) + 1
                   /\ sink.buf = TextOf(calls)
            /\ ~hit =>
                   /\ sink.calls = Len(calls)
                   /\ sink.buf = TextOf(calls)

\* the sink has rejected a call
Rejected(s) == s.failAt \in 1..s.calls

\* C8 as stated: any rejected call ends the render with Err, none is made
\* again, and Ok means that every call was accepted.
C8_AsStated ==
    (phase = "live" /\ drawRes # "none" /\ Rejected(sink)) =>
        /\ drawRes = "Err"
        /\ sink.calls = sink.failAt

C8_Witness ==
    /\ phase = "live"
    /\ drawRes = "Err"
    /\ ~noColor
    /\ grid = GridNew(2, 2)
    /\ formatting = AllZero
    /\ DOMAIN map = {Cell(0, 1), Cell(1, 0)}
    /\ sink.failAt = 6 /\ sink.kind = "Other" /\ sink.chunk = 0
    /\ sink.calls = 6
    /\ sink.buf = <<"ESC", "[", "3", "8", ";", "5", ";", "8">>

(***************************************************************************)
(* C9.  The formatting field can be assigned between renders, and a        *)
(* render is laid out by the formatting and the grid as they are when it   *)
(* runs, whatever the formatting was before and whatever was rendered      *)
(* before.                                                                 *)
(***************************************************************************)
C9_Current ==
    phase = "live" =>
        /\ \A field \in FormatField :
               \E v \in FormatValue : ENABLED SetFormatting(field, v)
        /\ Stringed => str = Layout(grid, map, formatting)
        /\ DrawnOk => sink.buf = Layout(grid, map, formatting)

\* an assignment to formatting changes nothing else of the TileMap, and no
\* text rendered under the old formatting stays
C9_Reassign ==
    (phase = "live" /\ phase' = "live" /\ formatting' # formatting) =>
        /\ grid' = grid /\ map' = map
        /\ drawRes' = "none" /\ strRes' = "none" /\ fmtRes' = "none"
        /\ ToText(SelfNext) = Layout(grid, map, formatting')

\* C9: formatting can be assigned at any time and every render is laid out by
\* the formatting of its own state.
C9_CurrentFormatting == [](C9_Current) /\ [][C9_Reassign]_vars

\* top_indent 3 with row_spacing 0 is the formatting of no constructor of
\* the model: it is the default with row_spacing assigned since
C9_Witness ==
    /\ Stringed
    /\ formatting.row_spacing = 0 /\ formatting.top_indent = 3
    /\ str = Layout(grid, map, formatting)
    /\ str # Layout(grid, map, FormattingDefault)

(***************************************************************************)
(* C10.  A render, successful or failed, leaves the stored entries, the    *)
(* grid and the formatting as they were; a cell resolved to the default    *)
(* value is not inserted into the map.                                     *)
(***************************************************************************)
C10_RenderStep ==
    /\ phase = "live"
    /\ drawRes' # "none" \/ strRes' # "none" \/ fmtRes' # "none"

\* C10: a render step leaves map, grid and formatting unchanged.
C10_RenderReadsOnly ==
    [][C10_RenderStep => (map' = map /\ grid' = grid /\ formatting' = formatting
                            /\ phase' = phase)]_vars

C10_Witness ==
    /\ phase = "live"
    /\ drawRes = "Err"
    /\ grid = GridNew(2, 1)
    /\ DOMAIN map = {Cell(1, 0)}
    /\ Tokens(sink.buf) = <<Token(EntityDefault)>>
    /\ sink.calls = sink.failAt

=============================================================================
